---- MODULE Spec2Model ----
(***************************************************************************)
(* Model of scripts/rag_sync_to_vector_store.py: the WordPress -> vector   *)
(* store sync.  iter_pages/get_json fetch page records (by id list or by   *)
(* paginated sweep, each GET retried by tenacity), main() formats every         *)
(* record with an id into /tmp/rag_pages/<id>.txt, resolves the vector     *)
(* store by name, and uploads + attaches each file in order.               *)
(*                                                                         *)
(* Text is modelled as a sequence of tokens; the token "\n" is the line    *)
(* break, " " is a blank.  A Python dict is a function whose DOMAIN is the *)
(* set of keys present (a JSON null is modelled as an absent key: .get()   *)
(* returns None for both).                                                 *)
(***************************************************************************)
EXTENDS Integers, Sequences, FiniteSets, TLC

\* ---------------------------------------------------------------- bounds
\* most paginated requests the content API answers with has_more = true + 1
MaxPage == 3
\* most records the content API serves during one run
MaxRecords == 2
\* most headings of a record handed to the formatter
MaxHeadings == 2
\* most tokens of a body handed to the formatter
MaxBody == 3

\* ------------------------------------------------------- program constants
PAGES_PER_PAGE == 50
FIELDS == "text"
VECTOR_STORE_NAME == "vbl-rag-test"
\* stop_after_attempt(5)
StopAttempts == 5
\* vs_api.list(limit=100)
ListLimit == 100

\* --------------------------------------------------------- text helpers
NL == "\n"
WS == {" ", NL}
\* None as the value of a text field (attributes pass it through)
None == <<"<None>">>

Last(s) == s[Len(s)]
Front(s) == SubSeq(s, 1, Len(s) - 1)

RECURSIVE lstrip(_)
lstrip(s) == IF s = <<>> THEN <<>>
             ELSE IF Head(s) \in WS THEN lstrip(Tail(s)) ELSE s

RECURSIVE rstrip(_)
rstrip(s) == IF s = <<>> THEN <<>>
             ELSE IF Last(s) \in WS THEN rstrip(Front(s)) ELSE s

\* str.strip(): leading and trailing whitespace removed
strip(s) == rstrip(lstrip(s))

\* "\n".join(lines)
RECURSIVE join(_)
join(lines) == IF lines = <<>> THEN <<>>
               ELSE IF Len(lines) = 1 THEN lines[1]
               ELSE lines[1] \o <<NL>> \o join(Tail(lines))

\* d.get(k) or dflt: the default replaces an absent (None) or empty value
GetOrPlaceholder(d, k, dflt) ==
    IF k \in DOMAIN d /\ d[k] # <<>> THEN d[k]
    ELSE IF k = "title" THEN <<"(untitled)">> ELSE dflt
GetOr(d, k, dflt) == IF k \in DOMAIN d /\ d[k] # <<>> THEN d[k] ELSE dflt

\* d.get(k) for a text field, None when absent
Get(d, k) == IF k \in DOMAIN d THEN d[k] ELSE None

\* f"  - H{lvl} {txt}" + (f"  (#{hid})" if hid else "")
heading_line(h) ==
    LET lvl == IF "level" \in DOMAIN h THEN h["level"] ELSE "None"
        txt == IF "text" \in DOMAIN h THEN h["text"] ELSE <<>>
        hid == IF "id" \in DOMAIN h THEN h["id"] ELSE <<>>
    IN  <<"  - H", lvl, " ">> \o txt
          \o (IF hid # <<>> THEN <<"  (#">> \o hid \o <<")">> ELSE <<>>)

heading_lines(headings) == [i \in 1..Len(headings) |-> heading_line(headings[i])]

\* the list `lines` built by page_to_text
page_lines(page_obj) ==
    LET title == GetOr(page_obj, "title", <<>>)
        permalink == GetOr(page_obj, "permalink", <<>>)
        modified == GetOr(page_obj, "modified_date_gmt", <<>>)
        headings == GetOr(page_obj, "headings", <<>>)
        content_text == GetOr(page_obj, "content_text", <<>>)
    IN  << <<"TITLE: ">> \o title,
           <<"URL: ">> \o permalink,
           <<"LAST_MODIFIED: ">> \o modified,
           <<>> >>
        \o (IF headings # <<>>
            THEN << <<"HEADINGS:">> >> \o heading_lines(headings) \o << <<>> >>
            ELSE <<>>)
        \o << <<"CONTENT:">>, strip(content_text) >>

page_to_text(page_obj) == join(page_lines(page_obj)) \o <<NL>>

\* the lines of a text that ends with a line break (str.splitlines)
RECURSIVE splitlines(_)
splitlines(t) ==
    IF t = <<>> THEN <<>>
    ELSE LET brk == CHOOSE i \in 1..Len(t) :
                       t[i] = NL /\ \A j \in 1..(i - 1) : t[j] # NL
         IN  <<SubSeq(t, 1, brk - 1)>> \o splitlines(SubSeq(t, brk + 1, Len(t)))

\* ------------------------------------------------- dict construction
\* an optional key: opt is {} (key absent) or {v}
Field(k, opt) == IF opt = {} THEN <<>> ELSE (k :> (CHOOSE v \in opt : TRUE))
Opt(S) == {{}} \cup {{v} : v \in S}

SeqsUpTo(S, n) == UNION {[1..k -> S] : k \in 0..n}


\* ------------------------------------------------------- input domains
\* environment of the run: INPUT_SINCE, STORED_CURSOR, UPDATE_IDS (lines 15-17)
EnvSet ==
    { [INPUT_SINCE |-> <<>>, STORED_CURSOR |-> <<>>, UPDATE_IDS |-> <<>>],
      [INPUT_SINCE |-> <<"2024-05-01T00:00:00">>, STORED_CURSOR |-> <<"2024-01-01T00:00:00">>,
       UPDATE_IDS |-> <<" ">>],
      [INPUT_SINCE |-> <<>>, STORED_CURSOR |-> <<>>, UPDATE_IDS |-> <<"5,9">>],
      [INPUT_SINCE |-> <<>>, STORED_CURSOR |-> <<"2024-01-01T00:00:00">>,
       UPDATE_IDS |-> <<" ", "5,9", NL>>] }

Intro == ("level" :> "2") @@ ("text" :> <<"Intro">>) @@ ("id" :> <<"intro">>)
More == ("level" :> "3") @@ ("text" :> <<"More">>)

\* page records the content API may serve: two revisions of page 7, page 9,
\* a record with an empty id and a record without id
Page7a == ("id" :> "7") @@ ("title" :> <<"Home">>) @@ ("permalink" :> <<"https://wp/home">>)
          @@ ("modified_date_gmt" :> <<"2024-05-02T10:00:00">>)
          @@ ("headings" :> <<Intro>>) @@ ("content_text" :> <<" ", "welcome", NL>>)
          @@ ("brand" :> <<"vbl">>)
Page7b == ("id" :> "7") @@ ("title" :> <<"Home">>) @@ ("permalink" :> <<"https://wp/home">>)
          @@ ("modified_date_gmt" :> <<"2024-05-03T08:00:00">>)
          @@ ("content_text" :> <<"welcome", " ", "back">>)
Page9 == ("id" :> "9") @@ ("title" :> <<"About">>) @@ ("content_text" :> <<"about">>)
PageEmptyId == ("id" :> "") @@ ("title" :> <<"Draft">>)
PageNoId == ("title" :> <<"Orphan">>) @@ ("content_text" :> <<"lost">>)
RecordSet == {Page7a, Page7b, Page9, PageEmptyId, PageNoId}

\* vector stores the service may list
StoreA == [id |-> "vs_A", name |-> <<VECTOR_STORE_NAME>>]
StoreB == [id |-> "vs_B", name |-> <<VECTOR_STORE_NAME>>]
StoreUpper == [id |-> "vs_U", name |-> <<"VBL-RAG-TEST">>]
StoreNoName == [id |-> "vs_N", name |-> None]
ListingSet == { <<>>, <<StoreUpper, StoreNoName>>, <<StoreUpper, StoreB, StoreA>>,
                <<StoreA, StoreB>> }
NoStore == [id |-> "", name |-> None]
NewStore == [id |-> "vs_new", name |-> <<VECTOR_STORE_NAME>>]

\* ----------------------------------------------------------------- state
VARIABLES
    env,            \* the environment variables read at import
    pc,             \* control point of main / iter_pages / get_json
    page,           \* iter_pages: page number of the current request (0: id request)
    attempt,        \* get_json: HTTP attempts made by the current call
    maxAttempts,    \* most HTTP attempts a get_json call of this run took to succeed
    data,           \* iter_pages: the response being yielded from
    pending,        \* records of data not yet yielded
    respLog,        \* every response get_json returned, in order
    yielded,        \* every record iter_pages yielded to main, in order
    count_pages,    \* main: count_pages
    written_files,  \* main: written_files, pairs (path, page)
    fs,             \* scratch directory /tmp/rag_pages: path -> text
    stores,         \* main: stores (the listing)
    vector_store,   \* main: vector_store
    uploaded,       \* main: uploaded
    idx,            \* main: pairs of written_files the upload loop has taken
    cur,            \* main: index in written_files of the pair (path, page) in hand
    file_obj,       \* main: id of the file object of the current pair
    remoteFiles,    \* remote service: bytes of the file objects, by file id
    attached,       \* remote service: files attached to stores
    trace,          \* every remote call made, in order
    exit,           \* process exit status ("" while running)
    err,            \* which call raised the error caught at top level
    doc_in,         \* formatter harness: the record handed to page_to_text
    doc_out         \* formatter harness: the text it returned

vars == <<env, pc, page, attempt, maxAttempts, data, pending, respLog, yielded, count_pages,
          written_files, fs, stores, vector_store, uploaded, idx, cur, file_obj, remoteFiles,
          attached, trace, exit, err, doc_in, doc_out>>

fetchVars == <<page, attempt, maxAttempts, data, pending, respLog, yielded>>
prepVars == <<count_pages, written_files, fs>>
storeVars == <<stores, vector_store>>
uploadVars == <<uploaded, idx, cur, file_obj, remoteFiles, attached>>
fmtVars == <<doc_in, doc_out>>

\* main, line 137: since = INPUT_SINCE or STORED_CURSOR or ""
since == IF env.INPUT_SINCE # <<>> THEN env.INPUT_SINCE
         ELSE IF env.STORED_CURSOR # <<>> THEN env.STORED_CURSOR ELSE <<>>
\* main, line 138: ids = UPDATE_IDS.strip() or ""
ids == strip(env.UPDATE_IDS)

\* wp_url: base url + path + urlencode(params); the query is kept as the dict
wp_url(path, params) == [path |-> path, query |-> params]

\* iter_pages, line 42: `if ids:`
IdsNotSinceEmpty(i) == i # <<>> /\ since = <<>>
UsesIdList(i) == i # <<>>

\* the url iter_pages hands to get_json (lines 43 and 50-53)
request_url(i, modified_after, p) ==
    IF UsesIdList(i)
    THEN wp_url("/wp-json/rag/v1/pages", ("ids" :> i) @@ ("fields" :> FIELDS))
    ELSE wp_url("/wp-json/rag/v1/pages",
                ("per_page" :> PAGES_PER_PAGE) @@ ("page" :> p) @@ ("fields" :> FIELDS)
                @@ (IF modified_after # <<>> THEN ("modified_after" :> modified_after)
                    ELSE <<>>))

Event(op, arg) == [op |-> op, arg |-> arg]

\* stop=stop_after_attempt(5): n is the number of attempts made so far
StopAfterSix(n) == n >= StopAttempts + 1
stop_after_attempt(n) == n >= StopAttempts

\* iter_pages, lines 56-58: `if not meta.get("has_more"): break`
BreaksOnEmptyPage(d) == d.pages = <<>>
PageLoopBreaks(d) == ~d.has_more

\* main, line 148: `if not pid: continue`
SkipsOnlyMissing(page_obj) == "id" \notin DOMAIN page_obj
SkipsPage(page_obj) == "id" \notin DOMAIN page_obj \/ page_obj["id"] = ""

\* main, line 151: outfile = out_dir / f"{pid}.txt"
PathOf(pid) == <<"/tmp/rag_pages/", pid, ".txt">>

\* main, line 157: `if count_pages == 0: return`
NeverReturnsEarly(n) == FALSE
ReturnsEarly(n) == n = 0

Init ==
    /\ env \in EnvSet
    /\ pc = "start"
    /\ page = 0
    /\ attempt = 0
    /\ maxAttempts = 0
    /\ data = [pages |-> <<>>, has_more |-> FALSE]
    /\ pending = <<>>
    /\ respLog = <<>>
    /\ yielded = <<>>
    /\ count_pages = 0
    /\ written_files = <<>>
    /\ fs = <<>>
    /\ stores = <<>>
    /\ vector_store = NoStore
    /\ uploaded = 0
    /\ idx = 0
    /\ cur = 0
    /\ file_obj = 0
    /\ remoteFiles = <<>>
    /\ attached = <<>>
    /\ trace = <<>>
    /\ exit = ""
    /\ err = ""
    /\ doc_in = <<>>
    /\ doc_out = <<>>

\* top level, lines 193-195: print("ERROR:", e); sys.exit(1)
Abort(what) == pc' = "failed" /\ exit' = 1 /\ err' = what

\* main lines 134-146 and iter_pages up to its first get_json call
Start ==
    /\ pc = "start"
    /\ pc' = "get_json"
    /\ page' = IF UsesIdList(ids) THEN 0 ELSE 1
    /\ attempt' = 0
    /\ trace' = Append(trace, Event("get_json", request_url(ids, since, page')))
    /\ UNCHANGED <<env, maxAttempts, data, pending, respLog, yielded, prepVars, storeVars,
                   uploadVars, exit, err, fmtVars>>

\* get_json: SESSION.get / raise_for_status / r.json() raised; tenacity retries or gives up
GetJsonFail ==
    /\ pc = "get_json"
    /\ attempt' = attempt + 1
    /\ IF stop_after_attempt(attempt') THEN Abort("get_json")
       ELSE UNCHANGED <<pc, exit, err>>
    /\ UNCHANGED <<env, page, maxAttempts, data, pending, respLog, yielded, prepVars, storeVars,
                   uploadVars, trace, fmtVars>>

\* get_json: an attempt succeeded and the response is returned to iter_pages
\* (has_more is metadata.has_more; an absent metadata or flag reads as false)
GetJsonOk ==
    /\ pc = "get_json"
    /\ \E pages \in SeqsUpTo(RecordSet, MaxRecords - Len(yielded)), hm \in BOOLEAN :
          /\ hm => page < MaxPage
          /\ data' = [pages |-> pages, has_more |-> hm]
          /\ pending' = pages
          /\ respLog' = Append(respLog, data')
    /\ attempt' = 0
    /\ maxAttempts' = IF attempt + 1 > maxAttempts THEN attempt + 1 ELSE maxAttempts
    /\ pc' = "yield"
    /\ UNCHANGED <<env, page, yielded, prepVars, storeVars, uploadVars, trace,
                   exit, err, fmtVars>>

\* iter_pages yields the next record; main's loop body, lines 147-154
ProcessPage ==
    /\ pc = "yield"
    /\ pending # <<>>
    /\ LET page_obj == Head(pending)
           outfile == PathOf(page_obj["id"])
       IN  /\ pending' = Tail(pending)
           /\ yielded' = Append(yielded, page_obj)
           /\ IF SkipsPage(page_obj)
              THEN UNCHANGED prepVars
              ELSE /\ fs' = (outfile :> page_to_text(page_obj)) @@ fs
                   /\ written_files' = Append(written_files,
                                              [path |-> outfile, page |-> page_obj])
                   /\ count_pages' = count_pages + 1
    /\ UNCHANGED <<env, pc, page, attempt, maxAttempts, data, respLog, storeVars, uploadVars,
                   trace, exit, err, fmtVars>>

\* iter_pages, line 59: page += 1 and the next request
IterNext ==
    /\ pc = "yield"
    /\ pending = <<>>
    /\ ~UsesIdList(ids)
    /\ ~PageLoopBreaks(data)
    /\ page' = page + 1
    /\ attempt' = 0
    /\ pc' = "get_json"
    /\ trace' = Append(trace, Event("get_json", request_url(ids, since, page')))
    /\ UNCHANGED <<env, maxAttempts, data, pending, respLog, yielded, prepVars, storeVars,
                   uploadVars, exit, err, fmtVars>>

\* iter_pages returns (line 46 or 58), the for loop ends; main lines 156-158
IterReturn ==
    /\ pc = "yield"
    /\ pending = <<>>
    /\ UsesIdList(ids) \/ PageLoopBreaks(data)
    /\ IF ReturnsEarly(count_pages)
       THEN pc' = "done_empty" /\ exit' = 0
       ELSE pc' = "resolve" /\ UNCHANGED exit
    /\ UNCHANGED <<env, fetchVars, prepVars, storeVars, uploadVars, trace, err, fmtVars>>


\* main lines 161-162: _get_vs_api finds client.beta.vector_stores or client.vector_stores
GetVsApiOk ==
    /\ pc = "resolve"
    /\ pc' = "list"
    /\ UNCHANGED <<env, fetchVars, prepVars, storeVars, uploadVars, trace, exit, err, fmtVars>>

\* _get_vs_api, line 102: the SDK exposes neither
GetVsApiMissing ==
    /\ pc = "resolve"
    /\ Abort("sdk")
    /\ UNCHANGED <<env, fetchVars, prepVars, storeVars, uploadVars, trace, fmtVars>>

\* main line 165: getattr(s, "name", None) == VECTOR_STORE_NAME
NameMatches(s) == s.name = <<VECTOR_STORE_NAME>>

\* main line 165: next((s for s in stores if ...), None)
LastMatch(listing) ==
    IF \E i \in 1..Len(listing) : NameMatches(listing[i])
    THEN listing[CHOOSE i \in 1..Len(listing) :
                    /\ NameMatches(listing[i])
                    /\ \A j \in (i + 1)..Len(listing) : ~NameMatches(listing[j])]
    ELSE NoStore
FirstMatch(listing) ==
    IF \E i \in 1..Len(listing) : NameMatches(listing[i])
    THEN listing[CHOOSE i \in 1..Len(listing) :
                    /\ NameMatches(listing[i])
                    /\ \A j \in 1..(i - 1) : ~NameMatches(listing[j])]
    ELSE NoStore

\* main lines 164-166: _list_stores returns the listing, the match is looked up
ListStoresOk ==
    /\ pc = "list"
    /\ trace' = Append(trace, Event("list", ListLimit))
    /\ \E listing \in ListingSet :
          /\ stores' = listing
          /\ vector_store' = FirstMatch(listing)
    /\ pc' = IF vector_store' = NoStore THEN "create" ELSE "upload"
    /\ UNCHANGED <<env, fetchVars, prepVars, uploadVars, exit, err, fmtVars>>

\* _list_stores, line 109: vs_api.list raised
ListStoresFail ==
    /\ pc = "list"
    /\ trace' = Append(trace, Event("list", ListLimit))
    /\ Abort("list")
    /\ UNCHANGED <<env, fetchVars, prepVars, storeVars, uploadVars, fmtVars>>

\* main line 167: vs_api.create(name=VECTOR_STORE_NAME)
CreateStoreOk ==
    /\ pc = "create"
    /\ trace' = Append(trace, Event("create", <<VECTOR_STORE_NAME>>))
    /\ vector_store' = NewStore
    /\ pc' = "upload"
    /\ UNCHANGED <<env, fetchVars, prepVars, stores, uploadVars, exit, err, fmtVars>>

CreateStoreFail ==
    /\ pc = "create"
    /\ trace' = Append(trace, Event("create", <<VECTOR_STORE_NAME>>))
    /\ Abort("create")
    /\ UNCHANGED <<env, fetchVars, prepVars, storeVars, uploadVars, fmtVars>>

\* main lines 176-184
attrs_of(page_obj) ==
    [source |-> Get(page_obj, "permalink"),
     page_id |-> IF "id" \in DOMAIN page_obj THEN page_obj["id"] ELSE "None",
     modified |-> Get(page_obj, "modified_date_gmt"),
     title |-> Get(page_obj, "title"),
     brand |-> Get(page_obj, "brand"),
     pillar |-> Get(page_obj, "pillar"),
     section |-> Get(page_obj, "section")]

\* main line 172: `for path, page in written_files` takes the pairs in list order;
\* n pairs were taken before
TakePairReversed(n) == Len(written_files) - n
TakePair(n) == n + 1

\* main lines 172-174: the loop takes the next pair, reads its path, uploads the bytes
UploadFileOkCounting ==
    /\ pc = "upload"
    /\ idx < Len(written_files)
    /\ idx' = idx + 1
    /\ cur' = TakePair(idx)
    /\ trace' = Append(trace, Event("upload", cur'))
    /\ remoteFiles' = Append(remoteFiles, fs[written_files[cur'].path])
    /\ file_obj' = Len(remoteFiles')
    /\ uploaded' = uploaded + 1
    /\ pc' = "attach"
    /\ UNCHANGED <<env, fetchVars, prepVars, storeVars, attached, exit, err, fmtVars>>
UploadFileOk ==
    /\ pc = "upload"
    /\ idx < Len(written_files)
    /\ idx' = idx + 1
    /\ cur' = TakePair(idx)
    /\ trace' = Append(trace, Event("upload", cur'))
    /\ remoteFiles' = Append(remoteFiles, fs[written_files[cur'].path])
    /\ file_obj' = Len(remoteFiles')
    /\ pc' = "attach"
    /\ UNCHANGED <<env, fetchVars, prepVars, storeVars, uploaded, attached, exit, err,
                   fmtVars>>

\* main line 174: client.files.create raised
UploadFileFail ==
    /\ pc = "upload"
    /\ idx < Len(written_files)
    /\ idx' = idx + 1
    /\ cur' = TakePair(idx)
    /\ trace' = Append(trace, Event("upload", cur'))
    /\ Abort("upload")
    /\ UNCHANGED <<env, fetchVars, prepVars, storeVars, uploaded, file_obj, remoteFiles,
                   attached, fmtVars>>

\* main lines 176-186: _attach_file succeeded (with attributes=, or after the
\* TypeError fallback with metadata=), then uploaded += 1
AttachFileOk ==
    /\ pc = "attach"
    /\ trace' = Append(trace, Event("attach", cur))
    /\ attached' = Append(attached, [vector_store_id |-> vector_store.id,
                                     file_id |-> file_obj,
                                     attrs |-> attrs_of(written_files[cur].page)])
    /\ uploaded' = uploaded + 1
    /\ pc' = "upload"
    /\ UNCHANGED <<env, fetchVars, prepVars, storeVars, idx, cur, file_obj, remoteFiles,
                   exit, err, fmtVars>>

\* _attach_file raised (not a TypeError, or the fallback call raised too)
AttachFileFail ==
    /\ pc = "attach"
    /\ trace' = Append(trace, Event("attach", cur))
    /\ Abort("attach")
    /\ UNCHANGED <<env, fetchVars, prepVars, storeVars, uploadVars, fmtVars>>

\* main line 188: the loop is over, main returns
Finish ==
    /\ pc = "upload"
    /\ idx = Len(written_files)
    /\ pc' = "done"
    /\ exit' = 0
    /\ UNCHANGED <<env, fetchVars, prepVars, storeVars, uploadVars, trace, err, fmtVars>>

Next ==
    \/ Start
    \/ GetJsonFail
    \/ GetJsonOk
    \/ ProcessPage
    \/ IterNext
    \/ IterReturn
    \/ GetVsApiOk
    \/ GetVsApiMissing
    \/ ListStoresOk
    \/ ListStoresFail
    \/ CreateStoreOk
    \/ CreateStoreFail
    \/ UploadFileOk
    \/ UploadFileFail
    \/ AttachFileOk
    \/ AttachFileFail
    \/ Finish

Spec == Init /\ [][Next]_vars


\* ------------------------------------------------- formatter on its own
NoText == ("level" :> "2")
HeadingSet == {Intro, More, NoText}
BodyTok == {" ", NL, "w", "HEADINGS:"}

\* records handed to page_to_text: every key present or absent
FmtRecords ==
    { Field("title", t) @@ Field("permalink", u) @@ Field("modified_date_gmt", m)
      @@ Field("headings", h) @@ Field("content_text", c) :
        t \in Opt({<<>>, <<"Home">>}),
        u \in Opt({<<"https://wp/home">>}),
        m \in Opt({<<"2024-05-02T10:00:00">>}),
        h \in Opt(SeqsUpTo(HeadingSet, MaxHeadings)),
        c \in Opt(SeqsUpTo(BodyTok, MaxBody)) }

InitFmt ==
    /\ env = [INPUT_SINCE |-> <<>>, STORED_CURSOR |-> <<>>, UPDATE_IDS |-> <<>>]
    /\ pc = "fmt"
    /\ page = 0
    /\ attempt = 0
    /\ maxAttempts = 0
    /\ data = [pages |-> <<>>, has_more |-> FALSE]
    /\ pending = <<>>
    /\ respLog = <<>>
    /\ yielded = <<>>
    /\ count_pages = 0
    /\ written_files = <<>>
    /\ fs = <<>>
    /\ stores = <<>>
    /\ vector_store = NoStore
    /\ uploaded = 0
    /\ idx = 0
    /\ cur = 0
    /\ file_obj = 0
    /\ remoteFiles = <<>>
    /\ attached = <<>>
    /\ trace = <<>>
    /\ exit = ""
    /\ err = ""
    /\ doc_in \in FmtRecords
    /\ doc_out = <<>>

\* text_body = page_to_text(page), main line 150
Format ==
    /\ pc = "fmt"
    /\ doc_out' = page_to_text(doc_in)
    /\ pc' = "fmt_done"
    /\ UNCHANGED <<env, fetchVars, prepVars, storeVars, uploadVars, trace, exit, err, doc_in>>

NextFmt == Format

SpecFmt == InitFmt /\ [][NextFmt]_vars


\* =================================================================== claims
\* remote calls of one kind made so far
Calls(op) == SelectSeq(trace, LAMBDA e : e.op = op)
FetchCalls == Len(Calls("get_json"))
ListCalls == Len(Calls("list"))
CreateCalls == Len(Calls("create"))
TransferCalls == SelectSeq(trace, LAMBDA e : e.op \in {"upload", "attach"})

\* records of the responses received so far, in order
RECURSIVE Concat(_)
Concat(log) == IF log = <<>> THEN <<>> ELSE Head(log).pages \o Concat(Tail(log))

HasId(r) == "id" \in DOMAIN r /\ r["id"] # ""
FetchPhase == pc \in {"start", "get_json", "yield"}
FetchAborted == pc = "failed" /\ err = "get_json"

\* ---- C7 (formatter) ----
FmtLines == splitlines(doc_out)
FmtText(k) == IF k \in DOMAIN doc_in THEN doc_in[k] ELSE <<>>
FmtHeadings == IF "headings" \in DOMAIN doc_in THEN doc_in["headings"] ELSE <<>>
\* index of the CONTENT: line that follows the headings block
FmtContentAt == IF FmtHeadings = <<>> THEN 5 ELSE 7 + Len(FmtHeadings)

FmtLayout ==
    /\ Len(FmtLines) > FmtContentAt
    /\ FmtLines[1] = <<"TITLE: ">> \o FmtText("title")
    /\ FmtLines[2] = <<"URL: ">> \o FmtText("permalink")
    /\ FmtLines[3] = <<"LAST_MODIFIED: ">> \o FmtText("modified_date_gmt")
    /\ FmtLines[4] = <<>>
    /\ FmtHeadings # <<>> =>
          /\ FmtLines[5] = <<"HEADINGS:">>
          /\ \A i \in 1..Len(FmtHeadings) : FmtLines[5 + i] = heading_line(FmtHeadings[i])
          /\ FmtLines[6 + Len(FmtHeadings)] = <<>>
    /\ FmtLines[FmtContentAt] = <<"CONTENT:">>
    /\ join(SubSeq(FmtLines, FmtContentAt + 1, Len(FmtLines))) = strip(FmtText("content_text"))

Terminal == pc \in {"done", "done_empty", "failed"}
PagesOf(wf) == [i \in 1..Len(wf) |-> wf[i].page]
QueryOf(k) == Calls("get_json")[k].arg.query
TargetIn(listing) == \E i \in 1..Len(listing) : listing[i].name = <<VECTOR_STORE_NAME>>
\* vs_api.list returned a listing
ListReturned ==
    \/ pc \in {"create", "upload", "attach", "done"}
    \/ pc = "failed" /\ err \in {"create", "upload", "attach"}
UploadsOf(i) == Len(SelectSeq(trace, LAMBDA e : e.op = "upload" /\ e.arg = i))
AttachesOf(i) == Len(SelectSeq(trace, LAMBDA e : e.op = "attach" /\ e.arg = i))

\* C1: without an id list, iter_pages requests pages 1, 2, 3, ...; every
\* response before the last received one had has_more = true; the sweep ends
\* right after the first response with has_more = false and never after one
\* with has_more = true (empty or not); then the fetch calls number the
\* responses and the records yielded are their concatenation, in order.
C1_Pagination ==
    ids = <<>> =>
        /\ \A k \in 1..FetchCalls :
              /\ "page" \in DOMAIN QueryOf(k)
              /\ QueryOf(k)["page"] = k
        /\ \A k \in 1..(Len(respLog) - 1) : respLog[k].has_more
        /\ yielded \o pending = Concat(respLog)
        /\ FetchCalls = Len(respLog) + (IF pc = "get_json" \/ FetchAborted THEN 1 ELSE 0)
        /\ (respLog # <<>> /\ Last(respLog).has_more) => (FetchPhase \/ FetchAborted)
        /\ (~FetchPhase /\ ~FetchAborted) =>
              /\ respLog # <<>>
              /\ ~Last(respLog).has_more
              /\ FetchCalls = Len(respLog)
              /\ yielded = Concat(respLog)

C1_Witness ==
    /\ pc = "done"
    /\ ids = <<>>
    /\ FetchCalls = 3
    /\ Len(respLog) = 3
    /\ respLog[1].pages # <<>>
    /\ respLog[2].pages = <<>>
    /\ respLog[3].pages # <<>>
    /\ Len(yielded) = 2

\* C2: with a non-empty id list exactly one get_json call is made, for that id
\* set, with no page number and no modified_after, whatever `since` is and
\* whatever has_more the response carries; the paginated loop is not entered.
C2_SingleFetch ==
    ids # <<>> =>
        /\ FetchCalls = (IF pc = "start" THEN 0 ELSE 1)
        /\ \A k \in 1..FetchCalls :
              /\ DOMAIN QueryOf(k) = {"ids", "fields"}
              /\ QueryOf(k)["ids"] = ids
        /\ Len(respLog) <= 1
        /\ page = 0
        /\ (~FetchPhase /\ ~FetchAborted) => yielded = respLog[1].pages

C2_Witness ==
    /\ pc = "done"
    /\ ids # <<>>
    /\ since # <<>>
    /\ respLog[1].has_more
    /\ FetchCalls = 1

\* C3: at most one listing call and at most one create call per run; once the
\* listing is back: if it holds a store named exactly VECTOR_STORE_NAME, no
\* create call is made and the first such store in listing order is used;
\* if it holds none, exactly one create call with that name is made.
C3_StoreResolution ==
    /\ ListCalls <= 1
    /\ CreateCalls <= 1
    /\ ListCalls = 1 <=> (ListReturned \/ (pc = "failed" /\ err = "list"))
    /\ ~ListReturned => CreateCalls = 0
    /\ (ListReturned /\ TargetIn(stores)) =>
          /\ CreateCalls = 0
          /\ pc # "create"
          /\ \E i \in 1..Len(stores) :
                /\ vector_store = stores[i]
                /\ stores[i].name = <<VECTOR_STORE_NAME>>
                /\ \A j \in 1..(i - 1) : stores[j].name # <<VECTOR_STORE_NAME>>
    /\ (ListReturned /\ ~TargetIn(stores)) =>
          /\ CreateCalls = (IF pc = "create" THEN 0 ELSE 1)
          /\ \A k \in 1..CreateCalls : Calls("create")[k].arg = <<VECTOR_STORE_NAME>>
          /\ (pc \in {"upload", "attach", "done"}) => vector_store = NewStore

C3_Witness ==
    /\ pc = "done"
    /\ stores = <<StoreUpper, StoreB, StoreA>>
    /\ vector_store = StoreB
    /\ ListCalls = 1
    /\ CreateCalls = 0

\* C4: a get_json call makes at most 5 attempts and ends at its first
\* success; when all 5 fail the run aborts with exit status 1, no store
\* list/create call and no upload; a run that ends well has the result its
\* responses determine, however many attempts the calls needed.
C4_Retry ==
    /\ attempt \in 0..StopAttempts
    /\ maxAttempts \in 0..StopAttempts
    /\ pc = "get_json" => attempt < StopAttempts
    /\ pc = "yield" => attempt = 0
    /\ FetchAborted =>
          /\ attempt = StopAttempts
          /\ exit = 1
          /\ ListCalls = 0
          /\ CreateCalls = 0
          /\ TransferCalls = <<>>
          /\ remoteFiles = <<>>
          /\ attached = <<>>
    /\ pc \in {"done", "done_empty"} =>
          /\ exit = 0
          /\ PagesOf(written_files) = SelectSeq(Concat(respLog), HasId)
          /\ uploaded = Len(written_files)
          /\ Len(attached) = uploaded
          /\ Len(remoteFiles) = uploaded

C4_Witness ==
    /\ pc = "done"
    /\ maxAttempts = 3
    /\ uploaded >= 1

\* C5 as stated: every record yielded with a non-empty id gets exactly one
\* document and exactly one upload and one attach attempt; records with an
\* empty or missing id get none and are not counted.
C5_AsStated ==
    /\ PagesOf(written_files) = SelectSeq(yielded, HasId)
    /\ count_pages = Len(written_files)
    /\ Terminal =>
          \A i \in 1..Len(SelectSeq(yielded, HasId)) : UploadsOf(i) = 1 /\ AttachesOf(i) = 1

\* C5 amended: every record yielded with a non-empty id gets exactly one
\* document and at most one upload and one attach attempt, exactly one of
\* each in a run that ends DONE; records with an empty or missing id are
\* skipped without error: no document, no file, no upload, no count.
C5_OnePerPage ==
    /\ PagesOf(written_files) = SelectSeq(yielded, HasId)
    /\ count_pages = Len(written_files)
    /\ DOMAIN fs = {written_files[i].path : i \in 1..Len(written_files)}
    /\ \A i \in 1..Len(written_files) :
          /\ written_files[i].path = PathOf(written_files[i].page["id"])
          /\ UploadsOf(i) <= 1
          /\ AttachesOf(i) <= 1
          /\ pc = "done" => (UploadsOf(i) = 1 /\ AttachesOf(i) = 1)
    /\ \A k \in 1..Len(TransferCalls) : TransferCalls[k].arg \in 1..Len(written_files)
    /\ (pc = "yield" /\ yielded # <<>> /\ ~HasId(Last(yielded))) => exit = ""

C5_Witness ==
    /\ pc = "done"
    /\ yielded = <<PageEmptyId, Page9>>
    /\ count_pages = 1
    /\ UploadsOf(1) = 1
    /\ AttachesOf(1) = 1

\* C6: when the fetch phase ends with zero pages prepared the run ends
\* DONE_EMPTY with exit status 0 and without any list, create, upload or
\* attach call.
C6_EmptyRun ==
    /\ (count_pages = 0 /\ ~FetchPhase /\ ~FetchAborted) => pc = "done_empty"
    /\ pc = "done_empty" =>
          /\ count_pages = 0
          /\ exit = 0
          /\ ListCalls = 0
          /\ CreateCalls = 0
          /\ TransferCalls = <<>>
          /\ remoteFiles = <<>>
          /\ attached = <<>>
          /\ \A k \in 1..Len(yielded) : ~HasId(yielded[k])

C6_Witness ==
    /\ pc = "done_empty"
    /\ Len(yielded) = 2
    /\ exit = 0

Rank(op) == CASE op = "get_json" -> 1
              [] op = "list" -> 2
              [] op = "create" -> 3
              [] OTHER -> 4

\* C8: in the order of the remote calls every get_json call precedes the
\* list/create calls, which precede every upload and attach; the transfers
\* are upload 1, attach 1, upload 2, attach 2, ... over the prepared pairs,
\* which are in the order their records were fetched.
C8_Order ==
    /\ \A i, j \in 1..Len(trace) : i < j => Rank(trace[i].op) <= Rank(trace[j].op)
    /\ \A k \in 1..Len(TransferCalls) :
          TransferCalls[k] = (IF k % 2 = 1 THEN Event("upload", (k + 1) \div 2)
                              ELSE Event("attach", k \div 2))
    /\ TransferCalls # <<>> => ~FetchPhase
    /\ PagesOf(written_files) = SelectSeq(yielded \o pending, HasId)
          \/ FetchPhase \/ FetchAborted
    /\ \A k \in 1..Len(remoteFiles) : remoteFiles[k] = fs[written_files[k].path]

C8_Witness ==
    /\ pc = "done"
    /\ FetchCalls = 2
    /\ CreateCalls = 1
    /\ Len(TransferCalls) = 4
    /\ PagesOf(written_files) = <<Page9, Page7a>>

\* C9: a pair is counted in `uploaded` only once its upload and its attach
\* have both succeeded: uploaded is the number of attached files and at most
\* the number of prepared pages; when the upload or attach of pair i fails
\* the run is FAILED with exit status 1, that call is the last remote call,
\* and the i - 1 files attached before stay attached.
C9_UploadAbort ==
    /\ uploaded = Len(attached)
    /\ uploaded <= count_pages
    /\ uploaded = Len(Calls("attach")) - (IF pc = "failed" /\ err = "attach" THEN 1 ELSE 0)
    /\ \A k \in 1..Len(attached) :
          /\ attached[k].file_id = k
          /\ attached[k].vector_store_id = vector_store.id
          /\ attached[k].attrs = attrs_of(written_files[k].page)
    /\ \A k \in 1..Len(trace) :
          trace[k].op \in {"get_json", "list", "create", "upload", "attach"}
    /\ (pc = "failed" /\ err \in {"upload", "attach"}) =>
          /\ exit = 1
          /\ Last(trace).op = err
          /\ Last(trace).arg = uploaded + 1
          /\ Len(attached) = Last(trace).arg - 1

C9_Witness ==
    /\ pc = "failed"
    /\ err = "attach"
    /\ uploaded = 1
    /\ Len(attached) = 1
    /\ Len(written_files) = 2

\* C10: the bytes uploaded for every prepared pair are the formatted text of
\* that pair's own PageRecord (also when two records carry the same id).
C10_OwnText ==
    \A k \in 1..Len(remoteFiles) :
        remoteFiles[k] = page_to_text(written_files[k].page)

====
